---- MODULE Spec2Model ----
(***************************************************************************)
(* A model of src/src/lib.rs: the wireframe-cube viewer (cursor mapper,    *)
(* rotation transform, perspective projector, cube model and the per-frame *)
(* render step of CubeState).                                              *)
(*                                                                         *)
(* Numbers.  An f32 is modelled by an exact rational <<n, d>> in lowest    *)
(* terms with d > 0.  The arithmetic of the cursor mapper (half-integers   *)
(* far below 2^24) is exact in f32, so there the model is the code's       *)
(* arithmetic.  Elsewhere the model leaves out f32 rounding.  Angles are   *)
(* kept in units of pi (PI is the rational 1), and sin/cos are a rational  *)
(* approximation that is exact at every multiple of 90 degrees.            *)
(***************************************************************************)
EXTENDS Integers, Sequences, FiniteSets, TLC

VARIABLES camera_settings, cube, cursor, screen_width, screen_height,
          quit_requested, canvas, frame, event, ret, call, value

vars == <<camera_settings, cube, cursor, screen_width, screen_height,
          quit_requested, canvas, frame, event, ret, call, value>>

(***************************************************************************)
(* Bounds of the model.                                                    *)
(***************************************************************************)
\* screen widths run over 1..MaxWidth: windows narrower than one cursor step
MaxWidth == 4
\* screen heights run over MinHeight..MaxHeight: windows taller than one step
MinHeight == 14
MaxHeight == 15
\* largest |coordinate| of the points given to project_3d_to_2d
MaxCoord == 2
\* largest camera distance given to project_3d_to_2d (besides the tests' 10)
MaxDist == 2
\* rotation angles run over the multiples k * 90 degrees, |k| <= MaxQuarter
MaxQuarter == 2
\* denominator the modelled sin/cos values are rounded to
TrigScale == 64
\* longest run of same-direction moves tried by the round-trip property
MaxMoves == 3

(***************************************************************************)
(* f32 values and their arithmetic.                                        *)
(***************************************************************************)
Abs(i) == IF i < 0 THEN -i ELSE i

RECURSIVE GCD(_, _)
GCD(a, b) == IF b = 0 THEN a ELSE GCD(b, a % b)

\* the rational n/d (d # 0) in lowest terms with a positive denominator
Rat(n, d) ==
    LET g == GCD(Abs(n), Abs(d))
        s == IF d < 0 THEN -1 ELSE 1
    IN  <<(s * n) \div g, (s * d) \div g>>

F32(i) == <<i, 1>>

RAdd(a, b) ==
    LET g == GCD(a[2], b[2])
    IN  Rat(a[1] * (b[2] \div g) + b[1] * (a[2] \div g), (a[2] \div g) * b[2])

RNeg(a) == <<-a[1], a[2]>>

RSub(a, b) == RAdd(a, RNeg(b))

\* a * b, cancelling across the two fractions before multiplying
RMul(a, b) ==
    LET g1 == GCD(Abs(a[1]), b[2])
        g2 == GCD(Abs(b[1]), a[2])
    IN  <<(a[1] \div g1) * (b[1] \div g2), (a[2] \div g2) * (b[2] \div g1)>>

\* a / b for b # 0
RDiv(a, b) ==
    RMul(a, IF b[1] < 0 THEN <<-b[2], -b[1]>> ELSE <<b[2], b[1]>>)

RLt(a, b) == a[1] * b[2] < b[1] * a[2]

RLe(a, b) == a[1] * b[2] <= b[1] * a[2]

\* integer quotient rounded toward zero (d > 0)
TruncDiv(n, d) == IF n >= 0 THEN n \div d ELSE -((-n) \div d)

\* Rust's % on f32 (fmod): a - b * trunc(a / b); the result has the sign of a
FRem(a, b) ==
    LET q == TruncDiv(a[1] * b[2], a[2] * b[1])
    IN  RSub(a, RMul(F32(q), b))

\* std::f32::consts::PI, in units of pi
PI == F32(1)

\* f32::to_radians: degrees to radians (in units of pi)
to_radians(deg) == RMul(RDiv(deg, F32(180)), PI)

\* sin(pi * u) for 0 <= u <= 1, by Bhaskara's rational approximation
\* 16 u (1 - u) / (5 - 4 u (1 - u)), rounded to a multiple of 1 / TrigScale;
\* exact at u = 0, 1/2, 1
SinHalfTurn(u) ==
    LET p   == u[1] * (u[2] - u[1])
        num == 16 * p * TrigScale
        den == 5 * u[2] * u[2] - 4 * p
    IN  Rat((2 * num + den) \div (2 * den), TrigScale)

\* f32::sin of an angle t given in units of pi
Sin(t) ==
    LET m == (2 * t[2])
        r == <<t[1] % m, t[2]>>                 \* t mod 2, in [0, 2)
    IN  IF r[1] <= r[2] THEN SinHalfTurn(Rat(r[1], r[2]))
        ELSE RNeg(SinHalfTurn(Rat(r[1] - r[2], r[2])))

\* f32::cos of an angle t given in units of pi
Cos(t) == Sin(RAdd(t, <<1, 2>>))

\* f32::tan of an angle t given in units of pi (not an odd multiple of pi/2)
Tan(t) == RDiv(Sin(t), Cos(t))

(***************************************************************************)
(* Value types and the cube model.                                         *)
(***************************************************************************)
Point3(x, y, z) == [x |-> x, y |-> y, z |-> z]

Point2(x, y) == [x |-> x, y |-> y]

Attitude(yaw, pitch, roll) == [yaw |-> yaw, pitch |-> pitch, roll |-> roll]

\* CameraSettings::new(fov_angle_deg: u16, camera_dist: u16)
CameraSettings_new(fov_angle_deg, camera_dist) ==
    [fov_angle_deg |-> F32(fov_angle_deg), camera_dist |-> F32(camera_dist)]

\* Cube::default() with the last vertex a repeat of the seventh
Cube_default_repeated ==
    [vertices |-> <<
        Point3(F32(-1), F32(-1), F32(-1)),
        Point3(F32(1),  F32(-1), F32(-1)),
        Point3(F32(1),  F32(1),  F32(-1)),
        Point3(F32(-1), F32(1),  F32(-1)),
        Point3(F32(-1), F32(-1), F32(1)),
        Point3(F32(1),  F32(-1), F32(1)),
        Point3(F32(1),  F32(1),  F32(1)),
        Point3(F32(1),  F32(1),  F32(1)) >>]

\* Cube::default(): the eight vertices (indices 0..7 of the code are the
\* positions 1..8 of this sequence)
Cube_default ==
    [vertices |-> <<
        Point3(F32(-1), F32(-1), F32(-1)),
        Point3(F32(1),  F32(-1), F32(-1)),
        Point3(F32(1),  F32(1),  F32(-1)),
        Point3(F32(-1), F32(1),  F32(-1)),
        Point3(F32(-1), F32(-1), F32(1)),
        Point3(F32(1),  F32(-1), F32(1)),
        Point3(F32(1),  F32(1),  F32(1)),
        Point3(F32(-1), F32(1),  F32(1)) >>]

\* the edge list of draw: pairs of vertex indices, counted from 0 as in the code
edges ==
    << <<0, 1>>, <<1, 2>>, <<2, 3>>, <<3, 0>>,
       <<4, 5>>, <<5, 6>>, <<6, 7>>, <<7, 4>>,
       <<0, 4>>, <<1, 5>>, <<2, 6>>, <<3, 7>> >>

(***************************************************************************)
(* Rotation transform.                                                     *)
(***************************************************************************)
yaw_matrix(attitude) ==
    << <<Cos(attitude.yaw), RNeg(Sin(attitude.yaw)), F32(0)>>,
       <<Sin(attitude.yaw), Cos(attitude.yaw),       F32(0)>>,
       <<F32(0),            F32(0),                  F32(1)>> >>

pitch_matrix(attitude) ==
    << <<Cos(attitude.pitch),       F32(0), Sin(attitude.pitch)>>,
       <<F32(0),                    F32(1), F32(0)>>,
       <<RNeg(Sin(attitude.pitch)), F32(0), Cos(attitude.pitch)>> >>

roll_matrix(attitude) ==
    << <<F32(1), F32(0),             F32(0)>>,
       <<F32(0), Cos(attitude.roll), RNeg(Sin(attitude.roll))>>,
       <<F32(0), Sin(attitude.roll), Cos(attitude.roll)>> >>

\* the closure of get_rotated_point: a 3x3 matrix times a point <<x, y, z>>
multiply_matrix_point(matrix, point) ==
    << RAdd(RAdd(RMul(point[1], matrix[1][1]), RMul(point[2], matrix[1][2])),
            RMul(point[3], matrix[1][3])),
       RAdd(RAdd(RMul(point[1], matrix[2][1]), RMul(point[2], matrix[2][2])),
            RMul(point[3], matrix[2][3])),
       RAdd(RAdd(RMul(point[1], matrix[3][1]), RMul(point[2], matrix[3][2])),
            RMul(point[3], matrix[3][3])) >>

\* the three matrices applied yaw first and roll last
RotationOrderYawFirst(attitude) ==
    <<yaw_matrix(attitude), pitch_matrix(attitude), roll_matrix(attitude)>>

\* the order in which get_rotated_point applies the three matrices
RotationOrder(attitude) ==
    <<roll_matrix(attitude), pitch_matrix(attitude), yaw_matrix(attitude)>>

get_rotated_point(point, attitude) ==
    LET order == RotationOrder(attitude)
        p1 == multiply_matrix_point(order[1], <<point.x, point.y, point.z>>)
        p2 == multiply_matrix_point(order[2], p1)
        p3 == multiply_matrix_point(order[3], p2)
    IN  Point3(p3[1], p3[2], p3[3])

(***************************************************************************)
(* Perspective projector.                                                  *)
(***************************************************************************)
\* the scale with no perspective division left at depth 0: a zero scale
ProjectionScaleZeroFallback(camera_dist, depth) ==
    IF depth # F32(0) THEN RDiv(camera_dist, depth) ELSE F32(0)

\* the scale of project_3d_to_2d, with its fallback at depth 0
ProjectionScale(camera_dist, depth) ==
    IF depth # F32(0) THEN RDiv(camera_dist, depth) ELSE F32(1)

\* half_fov_tan of project_3d_to_2d
HalfFovTan(settings) ==
    LET fov_angle_rad == to_radians(settings.fov_angle_deg)
        half_fov      == RDiv(fov_angle_rad, F32(2))
    IN  Tan(half_fov)

project_3d_to_2d(point, settings) ==
    LET half_fov_tan  == HalfFovTan(settings)
        depth         == RAdd(point.z, settings.camera_dist)
        scale         == ProjectionScale(settings.camera_dist, depth)
        x_proj        == RDiv(RMul(point.x, scale), half_fov_tan)
        y_proj        == RDiv(RMul(point.y, scale), half_fov_tan)
    IN  Point2(x_proj, y_proj)

(***************************************************************************)
(* Cursor mapper.                                                          *)
(***************************************************************************)
\* the key codes told apart by the handlers; "None" is a KeyInput whose
\* keycode is None, "Space" stands for every other key
KeyCodes == {"Up", "Down", "Left", "Right", "Q", "Space", "None"}

Directional == {"Up", "Down", "Left", "Right"}

\* the deltas with Left decreasing and Right increasing x
KeyDeltaSwapped(key) ==
    CASE key = "Up"    -> <<F32(0), F32(-10)>>
      [] key = "Down"  -> <<F32(0), F32(10)>>
      [] key = "Left"  -> <<F32(-10), F32(0)>>
      [] key = "Right" -> <<F32(10), F32(0)>>

\* the match of update_cursor: (dx, dy) of a directional key
KeyDelta(key) ==
    CASE key = "Up"    -> <<F32(0), F32(-10)>>
      [] key = "Down"  -> <<F32(0), F32(10)>>
      [] key = "Left"  -> <<F32(10), F32(0)>>
      [] key = "Right" -> <<F32(-10), F32(0)>>

\* one axis of update_cursor: (current + delta + size) % size
WrapAxis(current, delta, size) == FRem(RAdd(RAdd(current, delta), size), size)

\* update_cursor whose default arm yields the delta (0, 0) and does not return
update_cursor_no_return(cur, key, width, height) ==
    LET d == IF key \in Directional THEN KeyDelta(key) ELSE <<F32(0), F32(0)>>
    IN  Point2(WrapAxis(cur.x, d[1], width), WrapAxis(cur.y, d[2], height))

\* CubeState::update_cursor: the cursor after the key, given the cursor before
update_cursor(cur, key, width, height) ==
    IF key \notin Directional THEN cur
    ELSE LET d == KeyDelta(key)
         IN  Point2(WrapAxis(cur.x, d[1], width), WrapAxis(cur.y, d[2], height))

(***************************************************************************)
(* Per-frame derivation and draw requests.                                 *)
(***************************************************************************)
\* the attitude with pitch taken from cursor.y and roll from cursor.x
FrameAttitudeSwapped(cur, width, height) ==
    LET cursor_x_ratio == RMul(RDiv(cur.x, width), PI)
        cursor_y_ratio == RMul(RDiv(cur.y, height), PI)
    IN  Attitude(F32(0), cursor_y_ratio, cursor_x_ratio)

\* the attitude draw derives from the cursor
FrameAttitude(cur, width, height) ==
    LET cursor_x_ratio == RMul(RDiv(cur.x, width), PI)
        cursor_y_ratio == RMul(RDiv(cur.y, height), PI)
    IN  Attitude(F32(0), cursor_x_ratio, cursor_y_ratio)

\* the last map of the iterator chain in draw: into screen space
ToScreen(point_2d, width, height) ==
    Point2(RAdd(point_2d.x, RDiv(width, F32(2))),
           RAdd(point_2d.y, RDiv(height, F32(2))))

\* projected_vertices of draw
ProjectedVertices(cb, settings, cur, width, height) ==
    LET attitude == FrameAttitude(cur, width, height)
    IN  [i \in 1..Len(cb.vertices) |->
            ToScreen(project_3d_to_2d(get_rotated_point(cb.vertices[i], attitude),
                                      settings),
                     width, height)] \o <<>>

\* Mesh::new_line for one edge, drawn with the default DrawParam
LineRequest(pv, edge) ==
    [op |-> "line", points |-> <<pv[edge[1] + 1], pv[edge[2] + 1]>>,
     size |-> F32(2), color |-> "WHITE"]

\* Mesh::new_circle for one projected vertex
CircleRequest(point) ==
    [op |-> "circle", points |-> <<point>>, size |-> F32(5), color |-> "WHITE"]

\* the help text, at (10, screen_height - 30)
TextRequest(height) ==
    [op |-> "text", points |-> <<Point2(F32(10), RSub(height, F32(30)))>>,
     size |-> F32(0), color |-> "WHITE"]

\* the requests of a frame with the circles drawn before the lines
DrawRequestsCirclesFirst(pv, height) ==
    [i \in 1..Len(pv) |-> CircleRequest(pv[i])]
    \o [i \in 1..Len(edges) |-> LineRequest(pv, edges[i])]
    \o <<TextRequest(height)>>

\* the canvas.draw calls of a frame in which no mesh creation fails
DrawRequests(pv, height) ==
    [i \in 1..Len(edges) |-> LineRequest(pv, edges[i])]
    \o [i \in 1..Len(pv) |-> CircleRequest(pv[i])]
    \o <<TextRequest(height)>>

\* the number of fallible mesh creations of a frame (new_line, new_circle)
MeshCount(cb) == Len(edges) + Len(cb.vertices)

\* where a frame may fail: 0 is nowhere, k in 1..MeshCount the k-th mesh
\* creation, MeshCount + 1 canvas.finish
FailPoints(cb) == 0..(MeshCount(cb) + 1)

\* the errors the rendering collaborator may report
GameErrors == {"ResourceLoadError", "RenderError"}

\* the requests issued when a failed mesh is skipped and the frame goes on
IssuedRequestsSkipFailed(all, cb, fail) ==
    IF fail \in 1..MeshCount(cb)
    THEN SubSeq(all, 1, fail - 1) \o SubSeq(all, fail + 1, Len(all))
    ELSE all

\* the canvas.draw calls issued before draw returns
IssuedRequests(all, cb, fail) ==
    IF fail \in 1..MeshCount(cb) THEN SubSeq(all, 1, fail - 1) ELSE all

\* the GameResult of draw
DrawResult(fail, error) ==
    IF fail = 0 THEN [ok |-> TRUE, error |-> "none"]
    ELSE [ok |-> FALSE, error |-> error]

Ok == [ok |-> TRUE, error |-> "none"]

(***************************************************************************)
(* The viewer: CubeState and its event handlers.                           *)
(***************************************************************************)
NoCall == [fn |-> "none", done |-> TRUE]

NoFrame == [attitude |-> Attitude(F32(0), F32(0), F32(0)),
            projected_vertices |-> <<>>]

NoCanvas == [clear |-> "none", draws |-> <<>>, finished |-> FALSE]

Event(handler, keycode, fail, error) ==
    [handler |-> handler, keycode |-> keycode, fail |-> fail, error |-> error]

\* the cameras run is started with
Cameras == {CameraSettings_new(90, 10)}

\* CubeState::new(camera_settings, ctx), ctx.gfx.drawable_size() = (width, height)
CubeState_new(settings, width, height) ==
    /\ camera_settings = settings
    /\ cursor = Point2(RDiv(width, F32(2)), RDiv(height, F32(2)))
    /\ cube = Cube_default
    /\ screen_width = width
    /\ screen_height = height

Init ==
    /\ \E settings \in Cameras, w \in 1..MaxWidth, h \in MinHeight..MaxHeight :
           CubeState_new(settings, F32(w), F32(h))
    /\ quit_requested = FALSE
    /\ canvas = NoCanvas
    /\ frame = NoFrame
    /\ event = Event("new", "None", 0, "none")
    /\ ret = Ok
    /\ call = NoCall
    /\ value = Point2(F32(0), F32(0))

\* update that turns the cube by itself: it moves the cursor one step each tick
update_auto_rotate ==
    /\ cursor' = update_cursor(cursor, "Left", screen_width, screen_height)
    /\ event' = Event("update", "None", 0, "none")
    /\ ret' = Ok
    /\ canvas' = NoCanvas
    /\ frame' = NoFrame
    /\ UNCHANGED <<camera_settings, cube, screen_width, screen_height,
                   quit_requested, call, value>>

\* EventHandler::update
update ==
    /\ event' = Event("update", "None", 0, "none")
    /\ ret' = Ok
    /\ canvas' = NoCanvas
    /\ frame' = NoFrame
    /\ UNCHANGED <<camera_settings, cube, cursor, screen_width, screen_height,
                   quit_requested, call, value>>

\* EventHandler::key_down_event(ctx, input, _repeat), input.keycode = keycode
key_down_event(keycode) ==
    /\ IF keycode = "None" THEN UNCHANGED <<cursor, quit_requested>>
       ELSE IF keycode = "Q"
            THEN quit_requested' = TRUE /\ UNCHANGED cursor
            ELSE /\ cursor' = update_cursor(cursor, keycode, screen_width,
                                            screen_height)
                 /\ UNCHANGED quit_requested
    /\ event' = Event("key_down_event", keycode, 0, "none")
    /\ ret' = Ok
    /\ canvas' = NoCanvas
    /\ frame' = NoFrame
    /\ UNCHANGED <<camera_settings, cube, screen_width, screen_height,
                   call, value>>

\* EventHandler::draw; the rendering collaborator fails at `fail` (see
\* FailPoints) with `error`
draw ==
    \E pv \in {ProjectedVertices(cube, camera_settings, cursor, screen_width,
                                 screen_height)} :
    \E all \in {DrawRequests(pv, screen_height)} :
    \E fail \in FailPoints(cube), error \in GameErrors :
        /\ frame' = [attitude |-> FrameAttitude(cursor, screen_width,
                                                screen_height),
                     projected_vertices |-> pv]
        /\ canvas' = [clear |-> "BLACK",
                      draws |-> IssuedRequests(all, cube, fail),
                      finished |-> (fail = 0)]
        /\ ret' = DrawResult(fail, error)
        /\ event' = Event("draw", "None", fail, IF fail = 0 THEN "none" ELSE error)
        /\ UNCHANGED <<camera_settings, cube, cursor, screen_width,
                       screen_height, quit_requested, call, value>>

Next ==
    \/ update
    \/ \E keycode \in KeyCodes : key_down_event(keycode)
    \/ draw

Spec == Init /\ [][Next]_vars

(***************************************************************************)
(* The pure functions, applied to inputs drawn from bounded sets.  The     *)
(* viewer is the one constructed for a MaxWidth x MaxHeight window and     *)
(* takes no step.                                                          *)
(***************************************************************************)
IdleViewer ==
    /\ CubeState_new(CameraSettings_new(90, 10), F32(MaxWidth), F32(MaxHeight))
    /\ quit_requested = FALSE
    /\ canvas = NoCanvas
    /\ frame = NoFrame
    /\ event = Event("new", "None", 0, "none")
    /\ ret = Ok

viewer == <<camera_settings, cube, cursor, screen_width, screen_height,
            quit_requested, canvas, frame, event, ret>>

\* the field-of-view angles given to project_3d_to_2d
FovAngles == {60, 90, 120}

\* the inputs of the tests of project_3d_to_2d, all with CameraSettings::new(90, 10)
TestPoints ==
    { Point3(F32(0), F32(0), F32(0)), Point3(F32(5), F32(3), F32(0)),
      Point3(F32(5), F32(3), F32(10)), Point3(F32(1), F32(1), F32(-10)) }

ProjectPoints ==
    { Point3(F32(x), F32(y), F32(z)) :
        x \in -MaxCoord..MaxCoord, y \in -MaxCoord..MaxCoord,
        z \in -MaxCoord..MaxCoord } \cup TestPoints

ProjectCameras ==
    { CameraSettings_new(f, d) : f \in FovAngles, d \in 0..MaxDist }
    \cup { CameraSettings_new(90, 10) }

InitProject ==
    /\ IdleViewer
    /\ \E p \in ProjectPoints, c \in ProjectCameras :
           call = [fn |-> "project_3d_to_2d", done |-> FALSE, point |-> p,
                   camera_settings |-> c]
    /\ value = Point2(F32(0), F32(0))

\* a call of project_3d_to_2d(&point, &camera_settings)
call_project_3d_to_2d ==
    /\ call.fn = "project_3d_to_2d"
    /\ ~call.done
    /\ value' = project_3d_to_2d(call.point, call.camera_settings)
    /\ call' = [call EXCEPT !.done = TRUE]
    /\ UNCHANGED viewer

NextProject == call_project_3d_to_2d

SpecProject == InitProject /\ [][NextProject]_vars

\* the angle of k quarter turns (k * 90 degrees), in units of pi
QuarterTurns(k) == Rat(k, 2)

RotateAttitudes ==
    { Attitude(QuarterTurns(a), QuarterTurns(b), QuarterTurns(c)) :
        a \in -MaxQuarter..MaxQuarter, b \in -MaxQuarter..MaxQuarter,
        c \in -MaxQuarter..MaxQuarter }

RotatePoints ==
    { Point3(F32(x), F32(y), F32(z)) : x \in -1..1, y \in -1..1, z \in -1..1 }

InitRotate ==
    /\ IdleViewer
    /\ \E p \in RotatePoints, a \in RotateAttitudes :
           call = [fn |-> "get_rotated_point", done |-> FALSE, point |-> p,
                   attitude |-> a]
    /\ value = Point3(F32(0), F32(0), F32(0))

\* a call of get_rotated_point(&point, &attitude)
call_get_rotated_point ==
    /\ call.fn = "get_rotated_point"
    /\ ~call.done
    /\ value' = get_rotated_point(call.point, call.attitude)
    /\ call' = [call EXCEPT !.done = TRUE]
    /\ UNCHANGED viewer

NextRotate == call_get_rotated_point

SpecRotate == InitRotate /\ [][NextRotate]_vars

(***************************************************************************)
(* Properties.                                                             *)
(***************************************************************************)
InRange(cur) ==
    /\ RLe(F32(0), cur.x) /\ RLt(cur.x, screen_width)
    /\ RLe(F32(0), cur.y) /\ RLt(cur.y, screen_height)

Centre == Point2(RDiv(screen_width, F32(2)), RDiv(screen_height, F32(2)))

\* C1: after any sequence of key events on a screen of positive width and
\* height the cursor satisfies 0 <= cursor.x < screen_width and
\* 0 <= cursor.y < screen_height.
CursorInRange == InRange(cursor)

\* C2: a directional key sets the cursor to ((x + dx + W) % W, (y + dy + H) % H)
\* with (dx, dy) = (0, -10) for Up, (0, 10) for Down, (10, 0) for Left and
\* (-10, 0) for Right, % being the remainder of the code; both axes are
\* recomputed, the axis the key does not move with the delta 0.
ClaimDx(key) == IF key = "Left" THEN 10 ELSE IF key = "Right" THEN -10 ELSE 0

ClaimDy(key) == IF key = "Down" THEN 10 ELSE IF key = "Up" THEN -10 ELSE 0

OtherKeyLeavesCursor ==
    [][ (event'.handler = "key_down_event" /\ event'.keycode \notin Directional)
        => (cursor' = cursor /\ ret' = Ok) ]_vars

\* a key that is no direction has been handled with the cursor off the centre
\* and out of the screen's range
OtherKeyWitness ==
    /\ event.handler = "key_down_event"
    /\ event.keycode \in {"Q", "Space", "None"}
    /\ cursor # Centre
    /\ ~InRange(cursor)

\* C4: from a cursor in [0, W) x [0, H), n moves in one direction followed by
\* n moves in the opposite direction return the cursor to where it was.
RECURSIVE Moves(_, _, _)
Moves(cur, key, n) ==
    IF n = 0 THEN cur
    ELSE Moves(update_cursor(cur, key, screen_width, screen_height), key, n - 1)

Opposite(key) ==
    CASE key = "Up" -> "Down" [] key = "Down" -> "Up"
      [] key = "Left" -> "Right" [] key = "Right" -> "Left"

OppositeMovesReturn ==
    InRange(cursor) =>
        \A key \in Directional, n \in 1..MaxMoves :
            Moves(Moves(cursor, key, n), Opposite(key), n) = cursor

\* C5: project_3d_to_2d returns (x * scale / half_fov_tan, y * scale /
\* half_fov_tan) with depth = z + camera_dist, scale = camera_dist / depth when
\* depth # 0 and scale = 1 when depth = 0; with fov = 90 degrees a point with
\* z + camera_dist # 0 maps to (x * camera_dist / (z + camera_dist),
\* y * camera_dist / (z + camera_dist)) and a point with z = -camera_dist to
\* (x, y); the tests' points map to (0, 0), (5, 3), (5/2, 3/2) and (1, 1).
ClaimedProjection(p, c) ==
    LET depth == RAdd(p.z, c.camera_dist)
        scale == IF depth = F32(0) THEN F32(1) ELSE RDiv(c.camera_dist, depth)
    IN  Point2(RDiv(RMul(p.x, scale), HalfFovTan(c)),
               RDiv(RMul(p.y, scale), HalfFovTan(c)))

ClaimedProjectionAt90(p, c) ==
    LET depth == RAdd(p.z, c.camera_dist)
    IN  IF depth = F32(0) THEN Point2(p.x, p.y)
        ELSE Point2(RDiv(RMul(p.x, c.camera_dist), depth),
                    RDiv(RMul(p.y, c.camera_dist), depth))

TestProjection(p) ==
    CASE p = Point3(F32(0), F32(0), F32(0))   -> Point2(F32(0), F32(0))
      [] p = Point3(F32(5), F32(3), F32(0))   -> Point2(F32(5), F32(3))
      [] p = Point3(F32(5), F32(3), F32(10))  -> Point2(<<5, 2>>, <<3, 2>>)
      [] p = Point3(F32(1), F32(1), F32(-10)) -> Point2(F32(1), F32(1))

ProjectionFormula ==
    (call.fn = "project_3d_to_2d" /\ call.done) =>
        /\ value = ClaimedProjection(call.point, call.camera_settings)
        /\ call.camera_settings.fov_angle_deg = F32(90) =>
               /\ HalfFovTan(call.camera_settings) = F32(1)
               /\ value = ClaimedProjectionAt90(call.point, call.camera_settings)
        /\ (call.camera_settings = CameraSettings_new(90, 10)
            /\ call.point \in TestPoints) => value = TestProjection(call.point)

\* a point at the camera position (depth 0) with x # 0 has been projected at
\* fov 90 with a positive camera distance
ProjectionWitness ==
    /\ call.fn = "project_3d_to_2d" /\ call.done
    /\ call.camera_settings.fov_angle_deg = F32(90)
    /\ RLt(F32(0), call.camera_settings.camera_dist)
    /\ RAdd(call.point.z, call.camera_settings.camera_dist) = F32(0)
    /\ call.point.x # F32(0)
    /\ value = Point2(call.point.x, call.point.y)

\* C6: for angles that are multiples of 90 degrees get_rotated_point(p, a)
\* equals Yaw * (Pitch * (Roll * p)) with the matrices
\* Roll = [[1,0,0],[0,c,-s],[0,s,c]], Pitch = [[c,0,s],[0,1,0],[-s,0,c]],
\* Yaw = [[c,-s,0],[s,c,0],[0,0,1]]; so zero angles return p, (1,0,0) goes to
\* (0,1,0) under yaw 90, to (0,0,-1) under pitch 90 and under yaw 90 with
\* pitch 90, and (0,1,0) goes to (0,0,1) under roll 90.
CosQuarter(k) == CASE k % 4 = 0 -> 1 [] k % 4 = 1 -> 0 [] k % 4 = 2 -> -1 [] k % 4 = 3 -> 0

SinQuarter(k) == CASE k % 4 = 0 -> 0 [] k % 4 = 1 -> 1 [] k % 4 = 2 -> 0 [] k % 4 = 3 -> -1

ClaimedRoll(k, p) ==
    << p[1],
       CosQuarter(k) * p[2] - SinQuarter(k) * p[3],
       SinQuarter(k) * p[2] + CosQuarter(k) * p[3] >>

ClaimedPitch(k, p) ==
    << CosQuarter(k) * p[1] + SinQuarter(k) * p[3],
       p[2],
       CosQuarter(k) * p[3] - SinQuarter(k) * p[1] >>

ClaimedYaw(k, p) ==
    << CosQuarter(k) * p[1] - SinQuarter(k) * p[2],
       SinQuarter(k) * p[1] + CosQuarter(k) * p[2],
       p[3] >>

\* the number of quarter turns of an angle that is a multiple of 90 degrees
QuartersOf(t) == (2 * t[1]) \div t[2]

ClaimedRotation(p, a) ==
    LET r == ClaimedYaw(QuartersOf(a.yaw),
                 ClaimedPitch(QuartersOf(a.pitch),
                     ClaimedRoll(QuartersOf(a.roll), <<p.x[1], p.y[1], p.z[1]>>)))
    IN  Point3(F32(r[1]), F32(r[2]), F32(r[3]))

RotationCase(p, yaw, pitch, roll) ==
    /\ call.point = Point3(F32(p[1]), F32(p[2]), F32(p[3]))
    /\ call.attitude = Attitude(QuarterTurns(yaw), QuarterTurns(pitch),
                                QuarterTurns(roll))

RotationOrderRollPitchYaw ==
    (call.fn = "get_rotated_point" /\ call.done) =>
        /\ value = ClaimedRotation(call.point, call.attitude)
        /\ call.attitude = Attitude(F32(0), F32(0), F32(0)) => value = call.point
        /\ RotationCase(<<1, 0, 0>>, 1, 0, 0) => value = Point3(F32(0), F32(1), F32(0))
        /\ RotationCase(<<1, 0, 0>>, 0, 1, 0) => value = Point3(F32(0), F32(0), F32(-1))
        /\ RotationCase(<<0, 1, 0>>, 0, 0, 1) => value = Point3(F32(0), F32(0), F32(1))
        /\ RotationCase(<<1, 0, 0>>, 1, 1, 0) => value = Point3(F32(0), F32(0), F32(-1))

\* a point has been rotated about all three axes by 90 degrees each, a case
\* in which the order of the rotations shows: roll, pitch, yaw takes (0,1,0)
\* to (0,1,0), the reverse order takes it to (0,-1,0)
RotationWitness ==
    /\ call.fn = "get_rotated_point" /\ call.done
    /\ RotationCase(<<0, 1, 0>>, 1, 1, 1)
    /\ value = Point3(F32(0), F32(1), F32(0))

\* C7: a frame derives the attitude yaw = 0, pitch = (cursor.x / screen_width)
\* * pi, roll = (cursor.y / screen_height) * pi and exactly 8 screen-space
\* points, the i-th being project(rotate(vertex_i, attitude), camera) +
\* (screen_width / 2, screen_height / 2).
FrameDerivation ==
    event.handler = "draw" =>
        /\ frame.attitude.yaw = F32(0)
        /\ frame.attitude.pitch = RMul(RDiv(cursor.x, screen_width), PI)
        /\ frame.attitude.roll = RMul(RDiv(cursor.y, screen_height), PI)
        /\ Len(frame.projected_vertices) = 8
        /\ \A i \in 1..8 :
             LET q == project_3d_to_2d(
                          get_rotated_point(cube.vertices[i], frame.attitude),
                          camera_settings)
             IN  /\ frame.projected_vertices[i].x
                        = RAdd(q.x, RDiv(screen_width, F32(2)))
                 /\ frame.projected_vertices[i].y
                        = RAdd(q.y, RDiv(screen_height, F32(2)))

\* a frame has been derived with the cursor moved off the centre on both axes,
\* so that pitch and roll differ from each other and from a right angle
FrameWitness ==
    /\ event.handler = "draw"
    /\ cursor.x # Centre.x /\ cursor.y # Centre.y
    /\ frame.attitude.pitch # frame.attitude.roll
    /\ Len(frame.projected_vertices) = 8

\* C8: when the creation of a line or circle fails, draw returns that error,
\* issues no further draw request for the frame (no remaining line or circle,
\* no help text, no finish) and leaves cursor, screen size, camera and cube
\* unchanged.
DrawFailureAborts ==
    [][ (event'.handler = "draw" /\ event'.fail \in 1..20)
        => /\ ret' = [ok |-> FALSE, error |-> event'.error]
           /\ event'.error \in GameErrors
           /\ Len(canvas'.draws) = event'.fail - 1
           /\ \A i \in 1..Len(canvas'.draws) :
                  canvas'.draws[i].op = (IF i <= 12 THEN "line" ELSE "circle")
           /\ ~canvas'.finished
           /\ UNCHANGED <<cursor, screen_width, screen_height,
                          camera_settings, cube>> ]_vars

\* the creation of the third circle has failed: the 12 lines and 2 circles
\* before it were issued and draw returned the error
DrawFailureWitness ==
    /\ event.handler = "draw"
    /\ event.fail = 15
    /\ ret = [ok |-> FALSE, error |-> "RenderError"]
    /\ Len(canvas.draws) = 14
    /\ cursor # Centre

\* C9: a frame that succeeds emits exactly 12 line requests in the order of
\* the edge list, each naming the screen-space points of its edge's two vertex
\* indices, then exactly 8 circle requests at the projected vertices in index
\* order, then exactly one help-text request, and then finishes the frame.
DrawRequestOrder ==
    (event.handler = "draw" /\ ret.ok) =>
        /\ Len(canvas.draws) = 21
        /\ \A i \in 1..12 :
              /\ canvas.draws[i].op = "line"
              /\ canvas.draws[i].points =
                    << frame.projected_vertices[edges[i][1] + 1],
                       frame.projected_vertices[edges[i][2] + 1] >>
        /\ \A i \in 1..8 :
              /\ canvas.draws[12 + i].op = "circle"
              /\ canvas.draws[12 + i].points = <<frame.projected_vertices[i]>>
        /\ canvas.draws[21].op = "text"
        /\ canvas.finished

\* a frame has succeeded and finished with the cursor off the centre
DrawRequestWitness ==
    /\ event.handler = "draw" /\ ret.ok /\ canvas.finished
    /\ Len(canvas.draws) = 21
    /\ cursor # Centre

\* C10: the cube has exactly 8 vertices, pairwise distinct, each coordinate in
\* {-1, 1}; the edge list has exactly 12 entries, each a pair of vertex indices
\* in 0..7; every vertex index 0..7 appears in at least 3 edges.
CubeModel ==
    /\ Len(cube.vertices) = 8
    /\ \A i, j \in 1..Len(cube.vertices) :
           i # j => cube.vertices[i] # cube.vertices[j]
    /\ \A i \in 1..Len(cube.vertices) :
           /\ cube.vertices[i].x \in {F32(-1), F32(1)}
           /\ cube.vertices[i].y \in {F32(-1), F32(1)}
           /\ cube.vertices[i].z \in {F32(-1), F32(1)}
    /\ Len(edges) = 12
    /\ \A i \in 1..Len(edges) :
           Len(edges[i]) = 2 /\ edges[i][1] \in 0..7 /\ edges[i][2] \in 0..7
    /\ \A v \in 0..7 :
           Cardinality({i \in 1..Len(edges) : v \in {edges[i][1], edges[i][2]}}) >= 3

\* the cube has been drawn: a finished frame with one circle per vertex and
\* one line per edge
CubeModelWitness ==
    /\ event.handler = "draw" /\ canvas.finished
    /\ Cardinality({i \in 1..Len(canvas.draws) : canvas.draws[i].op = "circle"})
           = Len(cube.vertices)
    /\ Cardinality({i \in 1..Len(canvas.draws) : canvas.draws[i].op = "line"})
           = Len(edges)

\* C11: only the cursor is mutable: no step changes the camera settings, the
\* cube, screen_width or screen_height; update and draw change no component
\* of the viewer state and a key event changes at most the cursor; so a frame
\* derived right after another, with no key event between them, has the same
\* attitude and the same sequence of 8 screen-space points.
OnlyCursorMutable ==
    [][ /\ UNCHANGED <<camera_settings, cube, screen_width, screen_height>>
        /\ event'.handler \in {"update", "draw"} => cursor' = cursor
        /\ (event.handler = "draw" /\ event'.handler = "draw") =>
               /\ frame'.attitude = frame.attitude
               /\ frame'.projected_vertices = frame.projected_vertices
               /\ Len(frame'.projected_vertices) = 8 ]_vars

\* after key events that moved the cursor on both axes and a quit request, a
\* frame whose first line failed has been derived from a viewer that still
\* holds the cube and the screen it was constructed with
OnlyCursorWitness ==
    /\ event.handler = "draw" /\ event.fail = 1 /\ ~ret.ok
    /\ quit_requested
    /\ cursor.x # Centre.x /\ cursor.y # Centre.y
    /\ cube = Cube_default
    /\ camera_settings \in Cameras
    /\ Len(frame.projected_vertices) = 8

====
